---- MODULE Spec2Model ----
(***************************************************************************)
(* The peer persistence layer of reth-crawler (db/src/db.rs): the PeerDB   *)
(* trait and its three backends, InMemoryPeerDB (a HashMap behind an       *)
(* RwLock), SqlPeerDB (one SQLite table behind tokio_rusqlite's single     *)
(* connection thread) and AwsPeerDB (a DynamoDB table).                    *)
(*                                                                         *)
(* Time is counted in days.  A timestamp string (PeerData.last_seen, the   *)
(* cutoffs built with Utc::now().to_string()) is modelled by the day it    *)
(* denotes: chrono prints every DateTime<Utc> in one fixed-width layout up *)
(* to the seconds, so the byte-wise comparison SQLite and DynamoDB make of *)
(* two such strings orders them as the instants they denote.               *)
(*                                                                         *)
(* A capability name is a sequence of characters, so that join(",") and    *)
(* split(",") are computed character by character.  Every other text field *)
(* is an opaque string.  Option<T> is a sequence: <<>> is None, <<x>> is   *)
(* Some(x).                                                                *)
(***************************************************************************)
EXTENDS Integers, Sequences, FiniteSets, TLC

\* ------------------------------------------------------------------ bounds

\* The clock runs over the days 0..MaxTime.
MaxTime == 2
\* all_peers is called with page_size None or Some(0..MaxPage).
MaxPage == 2
\* prune_peers is called with time_validity in 0..MaxAge (days).
MaxAge == 1
\* Concurrent callers of the in-memory store in SpecMem.
\* The calls that can be sent to the SQL connection thread before its queue
\* has to drain (the order numbers the queue gives out).
MaxSeq == 3
NumTasks == 2
\* SpecCaps stores capability lists of up to MaxCaps names of up to
\* MaxNameLen characters.
MaxCaps == 2
MaxNameLen == 2

\* ------------------------------------------------------- program constants

\* Duration::hours(24) of AwsPeerDB::all_peers, in days.
FreshnessWindow == 1
\* page_size.unwrap_or(1000) of AwsPeerDB::all_peers.
AwsDefaultPageSize == 1000
\* page_size.unwrap_or(50) of InMemoryPeerDB::all_peers.
MemDefaultPageSize == 50

\* ------------------------------------------------------------------- data

None == <<>>
Some(x) == <<x>>
IsSome(o) == Len(o) = 1
Unwrap(o) == o[1]
UnwrapOr(o, d) == IF IsSome(o) THEN o[1] ELSE d

Min(a, b) == IF a <= b THEN a ELSE b

\* The ids peers are stored under, and one id that is never stored.
Ids == {"X", "Y"}
UnusedId == "Z"
\* The order in which a DynamoDB scan walks the partition keys.
KeyOrder == <<"X", "Y">>
Addrs == {"10.0.0.1", "10.0.0.2"}
UnusedAddr == "10.0.0.9"

\* Capability names, character by character.
ETH == <<"e", "6">>
SNAP == <<"s">>
WITHCOMMA == <<"e", ",", "6">>
SEP == ","

\* What a producer observes of a peer besides its id and the time: the
\* address, the client version and the capabilities.
Shapes ==
    { [address |-> "10.0.0.1", client_version |-> "reth", capabilities |-> <<ETH, SNAP>>],
      [address |-> "10.0.0.2", client_version |-> "geth", capabilities |-> <<SNAP, ETH>>],
      [address |-> "10.0.0.1", client_version |-> "geth", capabilities |-> <<WITHCOMMA>>],
      [address |-> "10.0.0.2", client_version |-> "reth", capabilities |-> <<>>] }

\* struct PeerData, field by field as db.rs reads and builds it.
PeerData(id, shape, seen) ==
    [ id |-> id,
      address |-> shape.address,
      client_version |-> shape.client_version,
      enode_url |-> "enode",
      tcp_port |-> 30303,
      chain |-> "mainnet",
      genesis_block_hash |-> "0xd4e5",
      best_block |-> "0xbest",
      total_difficulty |-> "0x0400",
      country |-> "",
      city |-> "",
      last_seen |-> seen,
      capabilities |-> shape.capabilities,
      eth_version |-> 68 ]

\* The records add_peer is called with at time t: the producer stamps an
\* observation with the time it makes it.
PeerInputs(t) == { PeerData(id, s, seen) : id \in Ids, s \in Shapes, seen \in {t} }

\* Every capability list within the bounds, over the characters "e" and ",".
Chars == {"e", SEP}
CapNames == UNION { [1..k -> Chars] : k \in 0..MaxNameLen }
CapLists == UNION { [1..k -> CapNames] : k \in 0..MaxCaps }

\* ------------------------------------------------- capabilities <-> text

\* [String]::join(sep): the names in order, sep between two neighbours; the
\* empty list gives the empty string.
RECURSIVE JoinFrom(_, _)
JoinFrom(caps, i) ==
    IF i > Len(caps) THEN <<>>
    ELSE IF i = Len(caps) THEN caps[i]
    ELSE caps[i] \o <<SEP>> \o JoinFrom(caps, i + 1)

\* Mutant: the names are concatenated with no separator.
RECURSIVE JoinConcat(_)
JoinConcat(caps) == IF caps = << >> THEN << >> ELSE Head(caps) \o JoinConcat(Tail(caps))

Join(caps) == JoinFrom(caps, 1)

\* str::split(sep) collected: walks the text, closing a piece at every sep;
\* the piece open at the end is always pushed, so "" gives [""].
RECURSIVE SplitFrom(_, _, _)
SplitFrom(text, i, piece) ==
    IF i > Len(text) THEN <<piece>>
    ELSE IF text[i] = SEP THEN <<piece>> \o SplitFrom(text, i + 1, <<>>)
    ELSE SplitFrom(text, i + 1, Append(piece, text[i]))

\* Mutant: the text is not split: it comes back as one name.
SplitWhole(text) == <<text>>

\* Mutant: the empty text gives the empty list.
SplitSkippingEmpty(text) == IF text = << >> THEN << >> ELSE SplitFrom(text, 1, <<>>)

Split(text) == SplitFrom(text, 1, <<>>)

\* ------------------------------------------------------ InMemoryPeerDB data

\* Mutant: the insert drops the entries under the other keys.
HashMapInsertClobber(m, k, v) == { [key |-> k, val |-> v] }

\* Mutant: an entry with a later last_seen is kept.
HashMapInsertNewer(m, k, v) ==
    IF \E e \in m : e.key = k /\ e.val.last_seen > v.last_seen
    THEN m
    ELSE { e \in m : e.key # k } \cup { [key |-> k, val |-> v] }

\* HashMap::insert: the entry under the key is replaced, or a new one added.
HashMapInsert(m, k, v) == { e \in m : e.key # k } \cup { [key |-> k, val |-> v] }

\* db.iter().map(clone).take(n).collect(): HashMap iterates in an order the
\* program does not control, so any n of the values can be the page.
MemPages(m, n) ==
    LET vals == { e.val : e \in m }
    IN  { page \in SUBSET vals : Cardinality(page) = Min(n, Cardinality(vals)) }

\* db.iter().filter(|(peer_id, _)| peer_id == id).map(clone).collect()
MemById(m, id) == { e.val : e \in { x \in m : x.key = id } }

\* Mutant: the filter compares the key, not the address.
MemByIpOnKey(m, ip) == { e.val : e \in { x \in m : x.key = ip } }

\* db.iter().filter(|(_, p)| p.address == ip).map(clone).collect()
MemByIp(m, ip) == { e.val : e \in { x \in m : x.val.address = ip } }

\* ----------------------------------------------------------- SqlPeerDB data

\* The VALUES tuple of the INSERT: one column per field, the capabilities
\* joined with ",".
ToRow(p) ==
    [ id |-> p.id,
      ip |-> p.address,
      client_version |-> p.client_version,
      enode_url |-> p.enode_url,
      port |-> p.tcp_port,
      chain |-> p.chain,
      genesis_hash |-> p.genesis_block_hash,
      best_block |-> p.best_block,
      total_difficulty |-> p.total_difficulty,
      country |-> p.country,
      city |-> p.city,
      last_seen |-> p.last_seen,
      capabilities |-> Join(p.capabilities),
      eth_version |-> p.eth_version ]

\* The query_map closure: one field per column, the capabilities split at ",".
FromRow(r) ==
    [ id |-> r.id,
      address |-> r.ip,
      client_version |-> r.client_version,
      enode_url |-> r.enode_url,
      tcp_port |-> r.port,
      chain |-> r.chain,
      genesis_block_hash |-> r.genesis_hash,
      best_block |-> r.best_block,
      total_difficulty |-> r.total_difficulty,
      country |-> r.country,
      city |-> r.city,
      last_seen |-> r.last_seen,
      capabilities |-> Split(r.capabilities),
      eth_version |-> r.eth_version ]

\* Mutant: INSERT OR IGNORE, the row in conflict stays.
InsertOrIgnore(rows, row) ==
    IF \E r \in rows : r.id = row.id THEN rows ELSE rows \cup { row }

\* INSERT OR REPLACE on a table whose PRIMARY KEY is id: the row in conflict
\* is deleted, then the new row is inserted.
InsertOrReplace(rows, row) == { r \in rows : r.id # row.id } \cup { row }

\* SELECT * from eth_peer_data, every row mapped: page_size is not used.
SqlSelectAll(rows, page_size) == { FromRow(r) : r \in rows }

\* Mutant: the WHERE clause is missing.
SqlSelectByIdNoWhere(rows, id) == { FromRow(r) : r \in rows }

\* SELECT * from eth_peer_data WHERE id = ?1
SqlSelectById(rows, id) == { FromRow(r) : r \in { x \in rows : x.id = id } }

\* SELECT * from eth_peer_data WHERE ip = ?1
SqlSelectByIp(rows, ip) == { FromRow(r) : r \in { x \in rows : x.ip = ip } }

\* Mutant: WHERE last_seen <= ?1
SqlDeleteInclusive(rows, cutoff) == { r \in rows : ~(r.last_seen <= cutoff) }

\* DELETE FROM eth_peer_data WHERE last_seen < ?1
SqlDelete(rows, cutoff) == { r \in rows : ~(r.last_seen < cutoff) }

\* Utc::now().checked_sub_signed(Duration::days(time_validity))
PruneCutoff(t, time_validity) == t - time_validity

\* ----------------------------------------------------------- AwsPeerDB data

\* The attributes put_item sends: the peer's fields, the region and the ttl.
Item(p, ttl) ==
    [ peer_id |-> p.id,
      peer_ip |-> p.address,
      client_version |-> p.client_version,
      enode_url |-> p.enode_url,
      port |-> p.tcp_port,
      chain |-> p.chain,
      country |-> p.country,
      city |-> p.city,
      capabilities |-> p.capabilities,
      eth_version |-> p.eth_version,
      last_seen |-> p.last_seen,
      source_region |-> "us-west-2",
      genesis_block_hash |-> p.genesis_block_hash,
      best_block |-> p.best_block,
      total_difficulty |-> p.total_difficulty,
      ttl |-> ttl ]

\* PutItem: the item under the same peer-id is replaced as a whole.
PutItem(items, item) == { i \in items : i.peer_id # item.peer_id } \cup { item }

\* Query with the key condition peer-id = :id
AwsQueryById(items, id) == { i \in items : i.peer_id = id }

\* Query on peer-ip-index with the key condition peer-ip = :ip
AwsQueryByIp(items, ip) == { i \in items : i.peer_ip = ip }

\* Utc::now().checked_sub_signed(Duration::hours(24))
AwsCutoff(t) == t - FreshnessWindow

\* Mutant: no filter expression.
AwsNoFilter(page, cutoff) == page

\* The filter expression last_seen > :last_seen_parameter
AwsFilter(page, cutoff) == { i \in page : i.last_seen > cutoff }

\* The position of a key in the scan order; 0 is before the first key.
KeyPos(id) == CHOOSE k \in 1..Len(KeyOrder) : KeyOrder[k] = id

\* One Scan request with Limit = limit, started after position pos: the items
\* it evaluates are the next `limit` stored items in key order.
ScanEvaluated(items, pos, limit) ==
    LET rest == { i \in items : KeyPos(i.peer_id) > pos }
    IN  { i \in rest : Cardinality({ j \in rest : KeyPos(j.peer_id) <= KeyPos(i.peer_id) }) <= limit }

\* LastEvaluatedKey of that request: the last item evaluated when the limit
\* was reached, absent (0) when the scan ran to the end of the table.
ScanLastKey(items, pos, limit) ==
    LET page == ScanEvaluated(items, pos, limit)
    IN  IF Cardinality(page) = limit /\ page # {}
        THEN CHOOSE k \in 1..Len(KeyOrder) :
                 /\ \E i \in page : KeyPos(i.peer_id) = k
                 /\ \A i \in page : KeyPos(i.peer_id) <= k
        ELSE 0

\* ------------------------------------------------------------------ state

VARIABLES
    backend,    \* "mem", "sql" or "aws": the store the process was started with
    now,        \* the clock (Utc::now()), in days
    mem,        \* InMemoryPeerDB.db: the HashMap, a set of [key, val] entries
    lock,       \* the RwLock around it: its writer, its readers, its poison flag
    sqlRows,    \* the rows of table eth_peer_data
    sqlQueue,   \* the closures sent to the connection thread, oldest first
    awsItems,   \* the items of table eth-peer-data
    pc,         \* per task: where it stands in the call it is making
    call,       \* per task: the call it is making
    scan,       \* per task: the paginator of its AwsPeerDB scan
    ret,        \* per task: what its last call returned
    added,      \* history: per id, the record of the last add_peer that took effect
    pruned      \* history: the ids added before the last prune_peers and not since

vars == << backend, now, mem, lock, sqlRows, sqlQueue, awsItems, pc, call, scan, ret, added, pruned >>

Tasks == DOMAIN pc

NoCall == [op |-> "none"]
NoRet == [call |-> NoCall, status |-> "none", err |-> "", out |-> {}, removed |-> {}, logged |-> None, requests |-> 0]
NoScan == [pos |-> 0, acc |-> {}, pages |-> 0, cutoff |-> 0]
FreeLock == [writer |-> {}, readers |-> {}, poisoned |-> FALSE]

\* What a call returns: Ok with the records read, Err with the error, or the
\* panic that ended the task.  `removed` is history, not returned: what the
\* call took out of the store (the record an add_peer replaced, the rows a
\* prune_peers deleted).  `logged` is the number the call wrote to the log
\* (info!), if it wrote one; `out` of a call that returns Ok(()) is empty;
\* `requests` is history: the requests the call sent to its backend.
Done(c, out, removed) ==
    [call |-> c, status |-> "ok", err |-> "", out |-> out, removed |-> removed, logged |-> None, requests |-> 0]
Ok(c, out) == Done(c, out, {})
Err(c, e) == [call |-> c, status |-> "err", err |-> e, out |-> {}, removed |-> {}, logged |-> None, requests |-> 0]
Panic(c) == [call |-> c, status |-> "panic", err |-> "", out |-> {}, removed |-> {}, logged |-> None, requests |-> 0]

\* r, of a call that sent n requests to its backend.
Sent(r, n) == [r EXCEPT !.requests = n]

\* The calls of the PeerDB trait (and SqlPeerDB::prune_peers) with their
\* arguments; `at` is the time the call was made.
AddPeerCalls(t) ==
    { [op |-> "add_peer", peer |-> p, ttl |-> ttl, at |-> t] :
          p \in PeerInputs(t), ttl \in {None, Some(t + 1)} }
AllPeersCalls(t) ==
    { [op |-> "all_peers", page_size |-> ps, at |-> t] :
          ps \in {None} \cup { Some(k) : k \in 0..MaxPage } }
NodeByIdCalls(t) ==
    { [op |-> "node_by_id", id |-> id, at |-> t] : id \in Ids \cup {UnusedId} }
NodeByIpCalls(t) ==
    { [op |-> "node_by_ip", ip |-> ip, at |-> t] : ip \in Addrs \cup {UnusedAddr} }
PrunePeersCalls(t) ==
    { [op |-> "prune_peers", time_validity |-> d, at |-> t, cutoff |-> PruneCutoff(t, d)] :
          d \in 0..MaxAge }
TraitCalls(t) == AddPeerCalls(t) \cup AllPeersCalls(t) \cup NodeByIdCalls(t) \cup NodeByIpCalls(t)

InitStores ==
    /\ now = 0
    /\ mem = {}
    /\ lock = FreeLock
    /\ sqlRows = {}
    /\ sqlQueue = <<>>
    /\ awsItems = {}
    /\ added = <<>>
    /\ pruned = {}

InitTasks(n) ==
    /\ pc = [t \in 1..n |-> "idle"]
    /\ call = [t \in 1..n |-> NoCall]
    /\ scan = [t \in 1..n |-> NoScan]
    /\ ret = [t \in 1..n |-> NoRet]

\* CrawlerFactory::make(local_db) picks the store once; one caller at a time.
Init ==
    /\ backend \in {"mem", "sql", "aws"}
    /\ InitStores
    /\ InitTasks(1)

\* Time passes.
Tick ==
    /\ now < MaxTime
    /\ now' = now + 1
    /\ UNCHANGED << backend, mem, lock, sqlRows, sqlQueue, awsItems, pc, call, scan, ret, added, pruned >>

\* The history of add_peer calls that took effect.
Record(p) == (p.id :> p) @@ added

\* A call returns r to its caller.
Return(t, r) ==
    /\ pc' = [pc EXCEPT ![t] = "idle"]
    /\ ret' = [ret EXCEPT ![t] = r]
    /\ call' = [call EXCEPT ![t] = NoCall]

\* A task enters call c: what its previous call returned is the caller's.
Enter(t, c, at) ==
    /\ pc' = [pc EXCEPT ![t] = at]
    /\ call' = [call EXCEPT ![t] = c]
    /\ ret' = [ret EXCEPT ![t] = NoRet]

\* --------------------------------------------------------- InMemoryPeerDB

LockFree == lock.writer = {} /\ lock.readers = {}

\* A task enters add_peer, all_peers, node_by_id or node_by_ip.
InMemoryCall(t, c) ==
    /\ backend = "mem"
    /\ pc[t] = "idle"
    /\ Enter(t, c, "called")
    /\ UNCHANGED << backend, now, mem, lock, sqlRows, sqlQueue, awsItems, scan, added, pruned >>

\* What the lock-unavailable error of each operation is.
InMemoryError(op) ==
    IF op = "add_peer" THEN "InMemoryDbAddItemError"
    ELSE IF op = "all_peers" THEN "InMemoryDbScanError"
    ELSE "InMemoryDbQueryItemError"

\* Mutant: the poison flag is not looked at (the PoisonError is unwrapped
\* into its guard).
InMemoryWriteIgnoringPoison(t) ==
    /\ backend = "mem"
    /\ pc[t] = "called"
    /\ call[t].op = "add_peer"
    /\ lock.writer = {} /\ lock.readers = {}
    /\ lock' = [lock EXCEPT !.writer = {t}]
    /\ pc' = [pc EXCEPT ![t] = "holding"]
    /\ UNCHANGED << backend, now, mem, sqlRows, sqlQueue, awsItems, call, scan, ret, added, pruned >>

\* Mutant: the writer waits for the other writers only, not for the readers.
InMemoryWriteBesideReaders(t) ==
    /\ backend = "mem"
    /\ pc[t] = "called"
    /\ call[t].op = "add_peer"
    /\ lock.writer = {}
    /\ IF lock.poisoned
       THEN /\ Return(t, Err(call[t], InMemoryError(call[t].op)))
            /\ UNCHANGED lock
       ELSE /\ lock' = [lock EXCEPT !.writer = {t}]
            /\ pc' = [pc EXCEPT ![t] = "holding"]
            /\ UNCHANGED << call, ret >>
    /\ UNCHANGED << backend, now, mem, sqlRows, sqlQueue, awsItems, scan, added, pruned >>

\* add_peer: self.db.write().map_err(..)?  The writer waits until nobody
\* holds the lock; a poisoned lock gives Err, and the guard inside the
\* PoisonError is dropped at once.
InMemoryWrite(t) ==
    /\ backend = "mem"
    /\ pc[t] = "called"
    /\ call[t].op = "add_peer"
    /\ LockFree
    /\ IF lock.poisoned
       THEN /\ Return(t, Err(call[t], InMemoryError(call[t].op)))
            /\ UNCHANGED lock
       ELSE /\ lock' = [lock EXCEPT !.writer = {t}]
            /\ pc' = [pc EXCEPT ![t] = "holding"]
            /\ UNCHANGED << call, ret >>
    /\ UNCHANGED << backend, now, mem, sqlRows, sqlQueue, awsItems, scan, added, pruned >>

\* add_peer: db.insert(peer_data.id.clone(), peer_data); Ok(()), and the
\* write guard is dropped on return.
InMemoryInsert(t) ==
    /\ backend = "mem"
    /\ pc[t] = "holding"
    /\ call[t].op = "add_peer"
    /\ mem' = HashMapInsert(mem, call[t].peer.id, call[t].peer)
    /\ added' = Record(call[t].peer)
    /\ pruned' = pruned \ {call[t].peer.id}
    /\ lock' = [lock EXCEPT !.writer = {}]
    /\ Return(t, Done(call[t], {}, mem \ mem'))
    /\ UNCHANGED << backend, now, sqlRows, sqlQueue, awsItems, scan >>

\* Mutant: a reader does not wait for the writer.
InMemoryReadBesideWriter(t) ==
    /\ backend = "mem"
    /\ pc[t] = "called"
    /\ call[t].op \in {"all_peers", "node_by_id", "node_by_ip"}
    /\ IF lock.poisoned
       THEN /\ Return(t, Err(call[t], InMemoryError(call[t].op)))
            /\ UNCHANGED lock
       ELSE /\ lock' = [lock EXCEPT !.readers = @ \cup {t}]
            /\ pc' = [pc EXCEPT ![t] = "holding"]
            /\ UNCHANGED << call, ret >>
    /\ UNCHANGED << backend, now, mem, sqlRows, sqlQueue, awsItems, scan, added, pruned >>

\* all_peers, node_by_id, node_by_ip: self.db.read().map_err(..)?  A reader
\* waits while a writer holds the lock.
InMemoryRead(t) ==
    /\ backend = "mem"
    /\ pc[t] = "called"
    /\ call[t].op \in {"all_peers", "node_by_id", "node_by_ip"}
    /\ lock.writer = {}
    /\ IF lock.poisoned
       THEN /\ Return(t, Err(call[t], InMemoryError(call[t].op)))
            /\ UNCHANGED lock
       ELSE /\ lock' = [lock EXCEPT !.readers = @ \cup {t}]
            /\ pc' = [pc EXCEPT ![t] = "holding"]
            /\ UNCHANGED << call, ret >>
    /\ UNCHANGED << backend, now, mem, sqlRows, sqlQueue, awsItems, scan, added, pruned >>

\* What a reader returns from the map it holds the read lock of.
InMemoryResults(m, c) ==
    IF c.op = "all_peers" THEN MemPages(m, UnwrapOr(c.page_size, MemDefaultPageSize))
    ELSE IF c.op = "node_by_id" THEN { MemById(m, c.id) }
    ELSE { MemByIp(m, c.ip) }

\* The scan under the read lock, and the read guard dropped on return.
InMemoryScan(t) ==
    /\ backend = "mem"
    /\ pc[t] = "holding"
    /\ call[t].op \in {"all_peers", "node_by_id", "node_by_ip"}
    /\ \E out \in InMemoryResults(mem, call[t]) : Return(t, Ok(call[t], out))
    /\ lock' = [lock EXCEPT !.readers = @ \ {t}]
    /\ UNCHANGED << backend, now, mem, sqlRows, sqlQueue, awsItems, scan, added, pruned >>

\* A task panics while it holds a guard, and is gone.  Unwinding drops the
\* guard, which releases the lock; the drop of a write guard poisons the
\* RwLock, the drop of a read guard does not.
InMemoryPanic(t) ==
    /\ backend = "mem"
    /\ pc[t] = "holding"
    /\ lock' = IF lock.writer = {t}
               THEN [lock EXCEPT !.writer = {}, !.poisoned = TRUE]
               ELSE [lock EXCEPT !.readers = @ \ {t}]
    /\ pc' = [pc EXCEPT ![t] = "panicked"]
    /\ ret' = [ret EXCEPT ![t] = Panic(call[t])]
    /\ call' = [call EXCEPT ![t] = NoCall]
    /\ UNCHANGED << backend, now, mem, sqlRows, sqlQueue, awsItems, scan, added, pruned >>

\* -------------------------------------------------------------- SqlPeerDB

\* The error each operation maps a failure of the connection thread to.
SqlError(op) ==
    IF op = "add_peer" THEN "SqlAddItemError"
    ELSE IF op = "all_peers" THEN "SqlScanError"
    ELSE IF op = "prune_peers" THEN "SqlDeleteItemError"
    ELSE "SqlQueryItemError"

\* History: the place of a closure in the order of arrival, counted from the
\* last time the queue was empty.
SqlSeq(queue) == IF queue = << >> THEN 1 ELSE queue[Len(queue)].seq + 1

\* A task enters an operation: self.db.call(closure) sends the closure to the
\* connection thread and the task awaits the answer.  prune_peers has read
\* the clock and built its cutoff before.
SqlCall(t, c) ==
    /\ backend = "sql"
    /\ pc[t] = "idle"
    /\ SqlSeq(sqlQueue) <= MaxSeq
    /\ sqlQueue' = Append(sqlQueue, [task |-> t, call |-> c, seq |-> SqlSeq(sqlQueue)])
    /\ Enter(t, c, "queued")
    /\ UNCHANGED << backend, now, mem, lock, sqlRows, awsItems, scan, added, pruned >>

\* Mutant: a read sweeps the rows older than the freshness window out of the
\* table.
SqlRowsAfterSweep(rows, c) ==
    IF c.op = "add_peer" THEN InsertOrReplace(rows, ToRow(c.peer))
    ELSE IF c.op = "prune_peers" THEN SqlDelete(rows, c.cutoff)
    ELSE { r \in rows : r.last_seen > c.at - FreshnessWindow }

\* The table after the closure of call c has run.
SqlRowsAfter(rows, c) ==
    IF c.op = "add_peer" THEN InsertOrReplace(rows, ToRow(c.peer))
    ELSE IF c.op = "prune_peers" THEN SqlDelete(rows, c.cutoff)
    ELSE rows

\* What the closure of call c answers.
SqlAnswer(rows, c) ==
    IF c.op = "all_peers" THEN SqlSelectAll(rows, c.page_size)
    ELSE IF c.op = "node_by_id" THEN SqlSelectById(rows, c.id)
    ELSE IF c.op = "node_by_ip" THEN SqlSelectByIp(rows, c.ip)
    ELSE {}

\* Mutant: the number of rows of the table before the DELETE.
SqlChangesTotal(rows, c) ==
    IF c.op = "prune_peers" THEN Some(Cardinality(rows)) ELSE None

\* prune_peers: conn.execute(DELETE ..) answers the number of rows the
\* statement deleted, which prune_peers writes to the log before Ok(()).
SqlChanges(rows, c) ==
    IF c.op = "prune_peers"
    THEN Some(Cardinality({ r \in rows : r.last_seen < c.cutoff }))
    ELSE None

\* The history after call c took effect.
SqlRecord(c) == IF c.op = "add_peer" THEN Record(c.peer) ELSE added

SqlPruned(c) ==
    IF c.op = "add_peer" THEN pruned \ {c.peer.id}
    ELSE IF c.op = "prune_peers" THEN DOMAIN added
    ELSE pruned

\* Mutant: the connection thread takes the closure that arrived last.
SqlReceiveNewest(queue) == Len(queue)

\* The closure the connection thread receives from its channel: the oldest.
SqlReceive(queue) == 1

\* The connection thread takes the oldest closure, runs it against the
\* database and sends the answer back; the engine may fail it (ok = FALSE),
\* and then the operation returns its error and the table is as it was.
SqlConnectionThread(ok) ==
    /\ backend = "sql"
    /\ sqlQueue # << >>
    /\ LET i == SqlReceive(sqlQueue)
           job == sqlQueue[i]
       IN  /\ sqlQueue' = SubSeq(sqlQueue, 1, i - 1) \o SubSeq(sqlQueue, i + 1, Len(sqlQueue))
           /\ IF ok
              THEN /\ sqlRows' = SqlRowsAfter(sqlRows, job.call)
                   /\ added' = SqlRecord(job.call)
                   /\ pruned' = SqlPruned(job.call)
                   /\ Return(job.task, [Done(job.call, SqlAnswer(sqlRows, job.call), sqlRows \ sqlRows')
                                           EXCEPT !.logged = SqlChanges(sqlRows, job.call), !.requests = 1])
              ELSE /\ Return(job.task, Sent(Err(job.call, SqlError(job.call.op)), 1))
                   /\ UNCHANGED << sqlRows, added, pruned >>
    /\ UNCHANGED << backend, now, mem, lock, awsItems, scan >>

\* -------------------------------------------------------------- AwsPeerDB

\* Mutant: a put_item that failed is sent once more, and goes through.
AwsAddPeerRetrying(t, c, ok) ==
    /\ backend = "aws"
    /\ pc[t] = "idle"
    /\ c.op = "add_peer"
    /\ IF ~IsSome(c.ttl)
       THEN /\ pc' = [pc EXCEPT ![t] = "panicked"]
            /\ ret' = [ret EXCEPT ![t] = Panic(c)]
            /\ UNCHANGED << call, awsItems, added, pruned >>
       ELSE /\ awsItems' = PutItem(awsItems, Item(c.peer, Unwrap(c.ttl)))
            /\ added' = Record(c.peer)
            /\ pruned' = pruned \ {c.peer.id}
            /\ Return(t, Sent(Done(c, {}, awsItems \ awsItems'), IF ok THEN 1 ELSE 2))
    /\ UNCHANGED << backend, now, mem, lock, sqlRows, sqlQueue, scan >>

\* add_peer: ttl.unwrap() panics on None before anything is sent; otherwise
\* one put_item, whose failure (ok = FALSE) is returned as the error.
AwsAddPeer(t, c, ok) ==
    /\ backend = "aws"
    /\ pc[t] = "idle"
    /\ c.op = "add_peer"
    /\ IF ~IsSome(c.ttl)
       THEN /\ pc' = [pc EXCEPT ![t] = "panicked"]
            /\ ret' = [ret EXCEPT ![t] = Panic(c)]
            /\ UNCHANGED << call, awsItems, added, pruned >>
       ELSE IF ok
       THEN /\ awsItems' = PutItem(awsItems, Item(c.peer, Unwrap(c.ttl)))
            /\ added' = Record(c.peer)
            /\ pruned' = pruned \ {c.peer.id}
            /\ Return(t, Sent(Done(c, {}, awsItems \ awsItems'), 1))
       ELSE /\ Return(t, Sent(Err(c, "AwsAddItemError"), 1))
            /\ UNCHANGED << awsItems, added, pruned >>
    /\ UNCHANGED << backend, now, mem, lock, sqlRows, sqlQueue, scan >>

\* node_by_id, node_by_ip: one query; `?` returns its failure as the error.
AwsQuery(t, c, ok) ==
    /\ backend = "aws"
    /\ pc[t] = "idle"
    /\ c.op \in {"node_by_id", "node_by_ip"}
    /\ IF ok
       THEN Return(t, Sent(Ok(c, IF c.op = "node_by_id"
                                 THEN AwsQueryById(awsItems, c.id)
                                 ELSE AwsQueryByIp(awsItems, c.ip)), 1))
       ELSE Return(t, Sent(Err(c, "AwsQueryItemError"), 1))
    /\ UNCHANGED << backend, now, mem, lock, sqlRows, sqlQueue, awsItems, scan, added, pruned >>

\* all_peers: the cutoff is built from the clock, then the paginator starts.
AwsAllPeers(t, c) ==
    /\ backend = "aws"
    /\ pc[t] = "idle"
    /\ c.op = "all_peers"
    /\ Enter(t, c, "scanning")
    /\ scan' = [scan EXCEPT ![t] = [pos |-> 0, acc |-> {}, pages |-> 0, cutoff |-> AwsCutoff(now)]]
    /\ UNCHANGED << backend, now, mem, lock, sqlRows, sqlQueue, awsItems, added, pruned >>

\* into_paginator().items().send().collect(): one Scan request per step, each
\* with Limit = page_size, until a response carries no LastEvaluatedKey; the
\* items of every page are collected.  A failed request (ok = FALSE, or a
\* Limit below 1, which the service rejects) ends the call with the error.
AwsScanPage(t, ok) ==
    /\ backend = "aws"
    /\ pc[t] = "scanning"
    /\ LET limit == UnwrapOr(call[t].page_size, AwsDefaultPageSize)
           page == ScanEvaluated(awsItems, scan[t].pos, limit)
           last == ScanLastKey(awsItems, scan[t].pos, limit)
           acc == scan[t].acc \cup AwsFilter(page, scan[t].cutoff)
       IN  IF ~ok \/ limit < 1
           THEN /\ Return(t, Sent(Err(call[t], "AwsScanError"), scan[t].pages + 1))
                /\ scan' = [scan EXCEPT ![t] = NoScan]
           ELSE IF last = 0
           THEN /\ Return(t, Sent(Ok(call[t], acc), scan[t].pages + 1))
                /\ scan' = [scan EXCEPT ![t] = [NoScan EXCEPT !.pages = scan[t].pages + 1]]
           ELSE /\ scan' = [scan EXCEPT ![t] = [@ EXCEPT !.pos = last, !.acc = acc, !.pages = @ + 1]]
                /\ UNCHANGED << pc, call, ret >>
    /\ UNCHANGED << backend, now, mem, lock, sqlRows, sqlQueue, awsItems, added, pruned >>

\* ---------------------------------------------------------- specifications

Next ==
    \/ Tick
    \/ \E t \in Tasks : \E c \in TraitCalls(now) : InMemoryCall(t, c)
    \/ \E t \in Tasks : InMemoryWrite(t)
    \/ \E t \in Tasks : InMemoryInsert(t)
    \/ \E t \in Tasks : InMemoryRead(t)
    \/ \E t \in Tasks : InMemoryScan(t)
    \/ \E t \in Tasks : \E c \in TraitCalls(now) \cup PrunePeersCalls(now) : SqlCall(t, c)
    \/ \E ok \in BOOLEAN : SqlConnectionThread(ok)
    \/ \E t \in Tasks : \E c \in AddPeerCalls(now) : \E ok \in BOOLEAN : AwsAddPeer(t, c, ok)
    \/ \E t \in Tasks : \E c \in NodeByIdCalls(now) \cup NodeByIpCalls(now) : \E ok \in BOOLEAN : AwsQuery(t, c, ok)
    \/ \E t \in Tasks : \E c \in AllPeersCalls(now) : AwsAllPeers(t, c)
    \/ \E t \in Tasks : \E ok \in BOOLEAN : AwsScanPage(t, ok)

Spec == Init /\ [][Next]_vars

\* The in-memory store shared by NumTasks concurrent tasks, any of which may
\* panic while it holds the read or the write guard.
MemShapes == { s \in Shapes : s.capabilities = <<ETH, SNAP>> \/ s.capabilities = <<SNAP, ETH>> }
MemTaskCalls(t) ==
    { c \in AddPeerCalls(t) : c.peer \in { PeerData(id, s, t) : id \in Ids, s \in MemShapes } /\ c.ttl = None }
        \cup { c \in AllPeersCalls(t) : c.page_size = Some(MaxPage) }
        \cup { c \in NodeByIdCalls(t) : c.id = "X" }
        \cup { c \in NodeByIpCalls(t) : c.ip = "10.0.0.1" }

InitMem ==
    /\ backend = "mem"
    /\ InitStores
    /\ InitTasks(NumTasks)

NextMem ==
    \/ \E t \in Tasks : \E c \in MemTaskCalls(now) : InMemoryCall(t, c)
    \/ \E t \in Tasks : InMemoryWrite(t)
    \/ \E t \in Tasks : InMemoryInsert(t)
    \/ \E t \in Tasks : InMemoryRead(t)
    \/ \E t \in Tasks : InMemoryScan(t)
    \/ \E t \in Tasks : InMemoryPanic(t)

SpecMem == InitMem /\ [][NextMem]_vars

\* The embedded store, fresh, on which add_peer has just been called with a
\* record of any capability list; then the connection thread and the reads.
CapsPeer(caps) ==
    PeerData("X", [address |-> "10.0.0.1", client_version |-> "reth", capabilities |-> caps], 0)
CapsReads(t) ==
    { c \in AllPeersCalls(t) : c.page_size = None }
        \cup { c \in NodeByIdCalls(t) : c.id = "X" }
        \cup { c \in NodeByIpCalls(t) : c.ip = "10.0.0.1" }

InitCaps ==
    /\ backend = "sql"
    /\ now = 0
    /\ mem = {}
    /\ lock = FreeLock
    /\ sqlRows = {}
    /\ awsItems = {}
    /\ added = << >>
    /\ pruned = {}
    /\ \E caps \in CapLists :
           LET c == [op |-> "add_peer", peer |-> CapsPeer(caps), ttl |-> None, at |-> 0]
           IN  /\ sqlQueue = << [task |-> 1, call |-> c, seq |-> 1] >>
               /\ pc = [t \in {1} |-> "queued"]
               /\ call = [t \in {1} |-> c]
    /\ scan = [t \in {1} |-> NoScan]
    /\ ret = [t \in {1} |-> NoRet]

NextCaps ==
    \/ \E t \in Tasks : \E c \in CapsReads(now) : SqlCall(t, c)
    \/ \E ok \in BOOLEAN : SqlConnectionThread(ok)

SpecCaps == InitCaps /\ [][NextCaps]_vars

\* The embedded store shared by NumTasks concurrent tasks, which add and
\* look up one id and prune.
SqlShapes == { s \in Shapes : s.capabilities = <<ETH, SNAP>> \/ s.capabilities = <<SNAP, ETH>> }
SqlTaskCalls(t) ==
    { c \in AddPeerCalls(t) : c.peer \in { PeerData("X", s, t) : s \in SqlShapes } /\ c.ttl = None }
        \cup { c \in NodeByIdCalls(t) : c.id = "X" }
        \cup { c \in PrunePeersCalls(t) : c.time_validity = 0 }

InitSql ==
    /\ backend = "sql"
    /\ InitStores
    /\ InitTasks(NumTasks)

NextSql ==
    \/ \E t \in Tasks : \E c \in SqlTaskCalls(now) : SqlCall(t, c)
    \/ \E ok \in BOOLEAN : SqlConnectionThread(ok)

SpecSql == InitSql /\ [][NextSql]_vars

\* Producers: NumTasks concurrent tasks that add records of one id to the
\* in-memory or the embedded store, each with last_seen values that never go
\* down from one of its calls to its next.
ProducerFloor(t) ==
    IF ret[t].call.op = "add_peer" THEN ret[t].call.peer.last_seen ELSE 0
ProducerCalls(t) ==
    { [op |-> "add_peer",
       peer |-> PeerData("X", [address |-> "10.0.0.1", client_version |-> "reth", capabilities |-> <<ETH, SNAP>>], seen),
       ttl |-> None,
       at |-> now] : seen \in ProducerFloor(t)..now }

InitProducers ==
    /\ backend \in {"mem", "sql"}
    /\ InitStores
    /\ InitTasks(NumTasks)

NextProducers ==
    \/ Tick
    \/ \E t \in Tasks : \E c \in ProducerCalls(t) : InMemoryCall(t, c)
    \/ \E t \in Tasks : InMemoryWrite(t)
    \/ \E t \in Tasks : InMemoryInsert(t)
    \/ \E t \in Tasks : \E c \in ProducerCalls(t) : SqlCall(t, c)
    \/ \E ok \in BOOLEAN : SqlConnectionThread(ok)

SpecProducers == InitProducers /\ [][NextProducers]_vars

\* ------------------------------------------------------------------ claims

\* The records a reader of the store gets, and those under one id.
Held ==
    IF backend = "mem" THEN { e.val : e \in mem }
    ELSE IF backend = "sql" THEN { FromRow(r) : r \in sqlRows }
    ELSE awsItems
HeldUnder(id) ==
    IF backend = "mem" THEN { e.val : e \in { x \in mem : x.key = id } }
    ELSE IF backend = "sql" THEN { FromRow(r) : r \in { x \in sqlRows : x.id = id } }
    ELSE { i \in awsItems : i.peer_id = id }
\* id was added, and no prune_peers has run since.
Current(id) == id \in DOMAIN added /\ id \notin pruned
\* A record as the embedded store gives it back: its capabilities joined with
\* "," and split at "," again.
Reloaded(p) == [p EXCEPT !.capabilities = Split(Join(@))]
\* A non-empty capability list none of whose names holds a comma.
CommaFree(caps) ==
    /\ Len(caps) > 0
    /\ \A i \in 1..Len(caps) : \A j \in 1..Len(caps[i]) : caps[i][j] # SEP
IsRead(op) == op \in {"all_peers", "node_by_id", "node_by_ip"}

\* C1 as stated: in the in-memory and the embedded SQL store, every id added
\* (and not pruned since) has exactly one record, equal field for field to the
\* record of the most recent add_peer for it.
C1_Original ==
    backend \in {"mem", "sql"} =>
        \A id \in Ids : Current(id) => HeldUnder(id) = { added[id] }

\* C1 amended: no id ever has two entries (rows); the entry of an added id is
\* the record of the most recent add_peer (in-memory), the row is that record
\* column for column with its capabilities comma-joined (SQL), so the record
\* read back is that record with capabilities split(join(capabilities)).
C1_Upsert ==
    /\ backend = "mem" =>
        /\ \A id \in Ids \cup {UnusedId} : Cardinality({ e \in mem : e.key = id }) <= 1
        /\ \A e \in mem : e.val.id = e.key
        /\ \A id \in Ids : Current(id) => { e \in mem : e.key = id } = { [key |-> id, val |-> added[id]] }
    /\ backend = "sql" =>
        /\ \A id \in Ids \cup {UnusedId} : Cardinality({ r \in sqlRows : r.id = id }) <= 1
        /\ \A id \in Ids : Current(id) =>
              /\ { r \in sqlRows : r.id = id } = { ToRow(added[id]) }
              /\ HeldUnder(id) = { Reloaded(added[id]) }

\* An add_peer on the SQL store has replaced a row that had another address.
C1_Witness ==
    \E t \in Tasks :
        /\ backend = "sql"
        /\ ret[t].call.op = "add_peer"
        /\ ret[t].status = "ok"
        /\ \E r \in ret[t].removed : r.ip # ret[t].call.peer.address
        /\ ToRow(ret[t].call.peer) \in sqlRows

\* C2 as stated: a node_by_id(X) that follows add_peer(record) with id X (no
\* later add or prune) returns a list holding a record equal to record; for
\* an id never added it returns the empty list.
C2_Original ==
    \A t \in Tasks :
        (ret[t].call.op = "node_by_id" /\ ret[t].status = "ok") =>
            LET id == ret[t].call.id
                out == ret[t].out
            IN  /\ (Current(id) /\ backend \in {"mem", "sql"}) => added[id] \in out
                /\ (Current(id) /\ backend = "aws") => \E i \in out : i = Item(added[id], i.ttl)
                /\ id \notin DOMAIN added => out = {}

\* C2 amended: as C2, with the record as the store gives it back: on the SQL
\* store its capabilities are split(join(capabilities)); and the in-memory
\* node_by_id returns no error.
C2_Lookup ==
    \A t \in Tasks :
        ret[t].call.op = "node_by_id" =>
            LET id == ret[t].call.id
                out == ret[t].out
            IN  /\ backend = "mem" => ret[t].status = "ok"
                /\ ret[t].status = "ok" =>
                    /\ (Current(id) /\ backend = "mem") => added[id] \in out
                    /\ (Current(id) /\ backend = "sql") => Reloaded(added[id]) \in out
                    /\ (Current(id) /\ backend = "aws") => \E i \in out : i = Item(added[id], i.ttl)
                    /\ id \notin DOMAIN added => out = {}

\* node_by_id has found the record of an id in a SQL store that holds another.
C2_Witness ==
    \E t \in Tasks :
        /\ backend = "sql"
        /\ ret[t].call.op = "node_by_id"
        /\ ret[t].status = "ok"
        /\ Current(ret[t].call.id)
        /\ ret[t].out = { Reloaded(added[ret[t].call.id]) }
        /\ Cardinality(sqlRows) = 2

\* C3: node_by_ip(addr) of the in-memory and the SQL store returns exactly
\* the records the store holds whose address is addr.
C3_AddressFilter ==
    \A t \in Tasks :
        (backend \in {"mem", "sql"} /\ ret[t].call.op = "node_by_ip") =>
            /\ backend = "mem" => ret[t].status = "ok"
            /\ ret[t].status = "ok" => ret[t].out = { p \in Held : p.address = ret[t].call.ip }

\* node_by_ip has returned one record and left out one of another address.
C3_Witness ==
    \E t \in Tasks :
        /\ backend = "mem"
        /\ ret[t].call.op = "node_by_ip"
        /\ ret[t].status = "ok"
        /\ ret[t].out # {}
        /\ \E p \in Held : p.address # ret[t].call.ip

\* C4: all_peers(page_size = K) returns at most K records, on every backend.
C4_PageBound ==
    \A t \in Tasks :
        (ret[t].call.op = "all_peers" /\ ret[t].status = "ok" /\ IsSome(ret[t].call.page_size)) =>
            Cardinality(ret[t].out) <= Unwrap(ret[t].call.page_size)

\* The step in which the connection thread runs a prune_peers that succeeds.
C5_PruneStep ==
    /\ backend = "sql"
    /\ sqlQueue # << >>
    /\ Head(sqlQueue).call.op = "prune_peers"
    /\ sqlQueue' = Tail(sqlQueue)
    /\ ret'[Head(sqlQueue).task].status = "ok"

\* C5: prune_peers(age_days) called at time `at` deletes exactly the rows
\* whose last_seen is before at - age_days; every other row stays as it is
\* (last_seen being text in the format of Utc::now().to_string(), whose
\* order as text is the order in time).
C5_Pruning ==
    [][ C5_PruneStep =>
            LET c == Head(sqlQueue).call
            IN  sqlRows' = { r \in sqlRows : r.last_seen >= c.at - c.time_validity } ]_vars

\* A prune_peers has deleted a row and kept another.
C5_Witness ==
    \E t \in Tasks :
        /\ ret[t].call.op = "prune_peers"
        /\ ret[t].status = "ok"
        /\ ret[t].removed # {}
        /\ sqlRows # {}

\* C6: a record stored in the SQL store with a non-empty capability list
\* whose names hold no comma is read back, by all_peers, node_by_id and
\* node_by_ip, with that same list.
C6_RoundTrip ==
    \A t \in Tasks :
        (backend = "sql" /\ IsRead(ret[t].call.op) /\ ret[t].status = "ok") =>
            \A id \in DOMAIN added :
                CommaFree(added[id].capabilities) =>
                    /\ \E p \in ret[t].out : p.id = id
                    /\ \A p \in ret[t].out : p.id = id => p.capabilities = added[id].capabilities

\* A list of two different comma-free names has come back as it was stored.
C6_Witness ==
    \E t \in Tasks :
        /\ backend = "sql"
        /\ ret[t].call.op = "all_peers"
        /\ \E p \in ret[t].out :
              /\ Len(p.capabilities) = 2
              /\ p.capabilities[1] # p.capabilities[2]
              /\ CommaFree(p.capabilities)
              /\ p.capabilities = added[p.id].capabilities

\* The step in which task t ends an all_peers whose page_size covers the map.
C7_FullScan(t) ==
    /\ pc[t] = "holding"
    /\ call[t].op = "all_peers"
    /\ pc'[t] = "idle"
    /\ UnwrapOr(call[t].page_size, MemDefaultPageSize) >= Cardinality(mem)

\* C7: while no task has panicked, every add_peer of the concurrent tasks
\* returns Ok, the record of every id added stays in the map, and an
\* all_peers whose page_size covers the map returns every record in it.
C7_ConcurrentWrites ==
    /\ [](~lock.poisoned =>
            /\ \A t \in Tasks : ret[t].call.op = "add_peer" => ret[t].status = "ok"
            /\ \A id \in DOMAIN added : [key |-> id, val |-> added[id]] \in mem)
    /\ [][ \A t \in Tasks :
              C7_FullScan(t) => (ret'[t].status = "ok" /\ ret'[t].out = { e.val : e \in mem }) ]_vars

\* Two tasks have added two ids and a third call has read both records.
C7_Witness ==
    \E t, u \in Tasks :
        /\ t # u
        /\ ret[t].call.op = "all_peers"
        /\ Cardinality(ret[t].out) = 2
        /\ ret[u].call.op = "add_peer"
        /\ ret[u].status = "ok"

\* C8: add_peer(record, ttl = None) on the cloud store returns an AddError:
\* the task does not panic and nothing is written.
C8_MissingTtl ==
    \A t \in Tasks :
        (backend = "aws" /\ ret[t].call.op = "add_peer" /\ ~IsSome(ret[t].call.ttl)) =>
            (ret[t].status = "err" /\ pc[t] # "panicked")

\* The lock-unavailable error of each family, as the spec names them.
C9_Error(op) ==
    CASE op = "add_peer" -> "InMemoryDbAddItemError"
      [] op = "all_peers" -> "InMemoryDbScanError"
      [] op \in {"node_by_id", "node_by_ip"} -> "InMemoryDbQueryItemError"

\* C9 as stated: once a task has panicked while it held the lock (for
\* reading or for writing), every call that gets to the lock returns the
\* lock-unavailable error of its family, and the map is never changed again.
C9_Original ==
    [][ (\E u \in Tasks : pc[u] = "panicked") =>
            /\ mem' = mem
            /\ \A t \in Tasks :
                  (pc[t] = "called" /\ pc'[t] # "called") =>
                      /\ pc'[t] = "idle"
                      /\ ret'[t].status = "err"
                      /\ ret'[t].err = C9_Error(call[t].op) ]_vars

\* C9 amended: once a task has panicked while it held the lock for writing,
\* the lock is poisoned and stays so, the map is never changed again, and
\* every call that gets to the lock returns the lock-unavailable error of its
\* family and does not panic.
C9_Poisoned ==
    /\ [](lock.poisoned <=> \E u \in Tasks : pc[u] = "panicked" /\ ret[u].call.op = "add_peer")
    /\ [][ lock.poisoned =>
            /\ lock'.poisoned
            /\ mem' = mem
            /\ \A t \in Tasks :
                  (pc[t] = "called" /\ pc'[t] # "called") =>
                      /\ pc'[t] = "idle"
                      /\ ret'[t].status = "err"
                      /\ ret'[t].err = C9_Error(call[t].op) ]_vars

\* After a panic under the write guard, an add_peer has returned its error.
C9_Witness ==
    /\ lock.poisoned
    /\ \E t \in Tasks : ret[t].status = "err" /\ ret[t].call.op = "add_peer"

\* C10 as stated: on both durable backends every record all_peers returns has
\* a last_seen within the 24 hours before the call.
C10_Original ==
    \A t \in Tasks :
        (backend \in {"sql", "aws"} /\ ret[t].call.op = "all_peers" /\ ret[t].status = "ok") =>
            \A r \in ret[t].out : r.last_seen > ret[t].call.at - FreshnessWindow

\* C10 amended: that holds of the cloud store; the SQL store's all_peers
\* returns every row, of any age.
C10_Freshness ==
    \A t \in Tasks :
        (ret[t].call.op = "all_peers" /\ ret[t].status = "ok") =>
            /\ backend = "aws" =>
                  \A r \in ret[t].out : r.last_seen > ret[t].call.at - FreshnessWindow
            /\ backend = "sql" => ret[t].out = Held

\* The cloud store's all_peers has returned a fresh item and left out a stale one.
C10_Witness ==
    \E t \in Tasks :
        /\ backend = "aws"
        /\ ret[t].call.op = "all_peers"
        /\ ret[t].status = "ok"
        /\ ret[t].out # {}
        /\ \E i \in awsItems :
              /\ i.last_seen <= ret[t].call.at - FreshnessWindow
              /\ i \notin ret[t].out

\* C11: the ids the in-memory map holds never shrink, whatever ttl add_peer
\* was given and however much time passes; an id leaves the SQL table only in
\* the step in which the connection thread runs a prune_peers.
C11_Lifetime ==
    [][ /\ backend = "mem" => { e.key : e \in mem } \subseteq { e.key : e \in mem' }
        /\ (backend = "sql" /\ ~({ r.id : r \in sqlRows } \subseteq { r.id : r \in sqlRows' })) =>
              /\ sqlQueue # << >>
              /\ Head(sqlQueue).call.op = "prune_peers"
              /\ sqlQueue' = Tail(sqlQueue) ]_vars

\* A record added to the in-memory store with a ttl is still there after the
\* ttl has passed.
C11_Witness ==
    \E t \in Tasks :
        /\ backend = "mem"
        /\ ret[t].call.op = "add_peer"
        /\ ret[t].status = "ok"
        /\ IsSome(ret[t].call.ttl)
        /\ now > Unwrap(ret[t].call.ttl)
        /\ [key |-> ret[t].call.peer.id, val |-> ret[t].call.peer] \in mem

\* C12 as stated: a prune_peers that succeeds returns to its caller the
\* number of rows it deleted.
C12_Original ==
    \A t \in Tasks :
        (ret[t].call.op = "prune_peers" /\ ret[t].status = "ok") =>
            ret[t].out = { Cardinality(ret[t].removed) }

\* C12 amended: a prune_peers that succeeds returns Ok(()) with no count in
\* it, and writes to the log the number of rows it deleted: the rows of the
\* table before the call less the rows after it.
C12_PruneCount ==
    [][ C5_PruneStep =>
            LET r == ret'[Head(sqlQueue).task]
            IN  /\ r.out = {}
                /\ r.logged = Some(Cardinality(sqlRows) - Cardinality(sqlRows'))
                /\ r.logged = Some(Cardinality(sqlRows \ sqlRows'))
                /\ sqlRows' \subseteq sqlRows ]_vars

\* A prune_peers has deleted one row and kept another, and logged 1.
C12_Witness ==
    \E t \in Tasks :
        /\ ret[t].call.op = "prune_peers"
        /\ ret[t].status = "ok"
        /\ ret[t].logged = Some(1)
        /\ Cardinality(ret[t].removed) = 1
        /\ sqlRows # {}

\* The tasks that hold the lock for writing (inside add_peer) and for
\* reading (inside all_peers, node_by_id, node_by_ip).
C13_Writers == { t \in Tasks : pc[t] = "holding" /\ call[t].op = "add_peer" }
C13_Readers == { t \in Tasks : pc[t] = "holding" /\ IsRead(call[t].op) }

\* C13: while an add_peer holds the lock for writing no other call holds it,
\* for reading or for writing; and an add_peer that asks for the lock gets it
\* only in a state in which no call holds it.
C13_Exclusion ==
    /\ [](/\ lock.writer = C13_Writers
          /\ lock.readers = C13_Readers
          /\ C13_Writers # {} => (Cardinality(C13_Writers) = 1 /\ C13_Readers = {}))
    /\ [][ \A t \in Tasks :
              (pc[t] = "called" /\ call[t].op = "add_peer" /\ pc'[t] = "holding") =>
                  (C13_Writers = {} /\ C13_Readers = {}) ]_vars

\* Two calls hold the lock for reading at the same time, after an add_peer
\* has held it alone and stored a record.
C13_Witness ==
    /\ Cardinality(C13_Readers) = 2
    /\ C13_Writers = {}
    /\ mem # {}

\* The tasks whose call the connection thread answers in this step.
C14_Served == { t \in Tasks : pc[t] = "queued" /\ pc'[t] # "queued" }
\* The closure of task t in the queue.
C14_Job(t) == CHOOSE j \in { sqlQueue[i] : i \in 1..Len(sqlQueue) } : j.task = t

\* C14: the connection thread answers one call per step, and the table
\* changes in no other step; the call it answers is the one that arrived
\* first among those waiting; and the answer of a read is computed from the
\* table as the calls answered before it left it, so that it holds the record
\* of the last add_peer that took effect.
C14_Fifo ==
    [][ /\ Cardinality(C14_Served) <= 1
        /\ sqlRows' # sqlRows => C14_Served # {}
        /\ \A t \in C14_Served :
              /\ \A u \in Tasks \ {t} : pc[u] = "queued" => C14_Job(u).seq > C14_Job(t).seq
              /\ (call[t].op = "node_by_id" /\ ret'[t].status = "ok") =>
                    /\ sqlRows' = sqlRows
                    /\ ret'[t].out = { FromRow(r) : r \in { x \in sqlRows : x.id = call[t].id } }
                    /\ Current(call[t].id) => ret'[t].out = { Reloaded(added[call[t].id]) } ]_vars

\* A node_by_id of one task has returned the record that the add_peer of
\* another task, sent before it, had stored.
C14_Witness ==
    \E t, u \in Tasks :
        /\ t # u
        /\ ret[t].call.op = "node_by_id"
        /\ ret[t].status = "ok"
        /\ ret[u].call.op = "add_peer"
        /\ ret[u].status = "ok"
        /\ ret[t].out = { Reloaded(ret[u].call.peer) }

\* The last_seen values stored under id, in the map or in the table.
C15_Stored(id) ==
    IF backend = "mem" THEN { e.val.last_seen : e \in { x \in mem : x.key = id } }
    ELSE { r.last_seen : r \in { x \in sqlRows : x.id = id } }
\* The step in which the add_peer of task t takes effect.
C15_Effect(t) ==
    /\ call[t].op = "add_peer"
    /\ pc[t] \in {"holding", "queued"}
    /\ pc'[t] = "idle"
    /\ ret'[t].status = "ok"

\* C15 as stated: when every producer sends non-decreasing last_seen values
\* for an id, the last_seen stored for the id never goes down.
C15_Original ==
    [][ \A id \in Ids :
           \A old \in C15_Stored(id) :
              /\ \A e \in mem' : (backend = "mem" /\ e.key = id) => e.val.last_seen >= old
              /\ \A r \in sqlRows' : (backend = "sql" /\ r.id = id) => r.last_seen >= old ]_vars

\* C15 amended: the stores compare nothing: an add_peer that takes effect
\* leaves its own record, with its own last_seen, under its id, whether what
\* was stored was older or newer; and what is stored changes in no other step.
C15_NoComparison ==
    [][ /\ \A t \in Tasks :
              C15_Effect(t) =>
                  /\ backend = "mem" =>
                        { e \in mem' : e.key = call[t].peer.id } = { [key |-> call[t].peer.id, val |-> call[t].peer] }
                  /\ backend = "sql" =>
                        { r \in sqlRows' : r.id = call[t].peer.id } = { ToRow(call[t].peer) }
        /\ (mem' # mem \/ sqlRows' # sqlRows) => \E t \in Tasks : C15_Effect(t) ]_vars

\* The record stored is older than the one an add_peer of another producer
\* had stored before: the stored last_seen has gone down.
C15_Witness ==
    \E t \in Tasks : \E id \in Ids :
        /\ ret[t].call.op = "add_peer"
        /\ ret[t].status = "ok"
        /\ ret[t].call.peer.id = id
        /\ backend = "sql"
        /\ \E r \in sqlRows : r.id = id /\ r.last_seen < ret[t].call.peer.last_seen

\* The error of each operation's family, on the cloud and the embedded store.
C16_Error(op) ==
    IF backend = "aws"
    THEN (IF op = "add_peer" THEN "AwsAddItemError" ELSE "AwsQueryItemError")
    ELSE (IF op = "add_peer" THEN "SqlAddItemError"
          ELSE IF op = "prune_peers" THEN "SqlDeleteItemError"
          ELSE "SqlQueryItemError")
C16_Ops == {"add_peer", "node_by_id", "node_by_ip", "prune_peers"}

C17_Commas(caps) ==
    Cardinality({ p \in (1..Len(caps)) \X (1..MaxNameLen) :
                     p[2] <= Len(caps[p[1]]) /\ caps[p[1]][p[2]] = SEP })

\* C17: a record stored in the SQL store with a capability list some name of
\* which holds a comma is read back, by all_peers, node_by_id and
\* node_by_ip, with another list: the names cut at their commas, one name
\* more for every comma.
C17_CommaSplit ==
    \A t \in Tasks :
        (backend = "sql" /\ IsRead(ret[t].call.op) /\ ret[t].status = "ok") =>
            \A id \in DOMAIN added :
                C17_Commas(added[id].capabilities) > 0 =>
                    /\ \E p \in ret[t].out : p.id = id
                    /\ \A p \in ret[t].out :
                          p.id = id =>
                              /\ p.capabilities # added[id].capabilities
                              /\ Len(p.capabilities) = Len(added[id].capabilities) + C17_Commas(added[id].capabilities)
                              /\ C17_Commas(p.capabilities) = 0
                              /\ Join(p.capabilities) = Join(added[id].capabilities)

\* A list of one name that ends in a comma has come back as two names.
C17_Witness ==
    \E t \in Tasks :
        /\ backend = "sql"
        /\ ret[t].call.op = "node_by_id"
        /\ "X" \in DOMAIN added
        /\ added["X"].capabilities = << <<"e", SEP>> >>
        /\ \E p \in ret[t].out : p.capabilities = << <<"e">>, << >> >>

\* C19: a record stored in the SQL store with the empty capability list is
\* read back, by all_peers, node_by_id and node_by_ip, with the list of one
\* name, the empty string.
C19_EmptyList ==
    \A t \in Tasks :
        (backend = "sql" /\ IsRead(ret[t].call.op) /\ ret[t].status = "ok") =>
            \A id \in DOMAIN added :
                added[id].capabilities = << >> =>
                    /\ \E p \in ret[t].out : p.id = id
                    /\ \A p \in ret[t].out : p.id = id => p.capabilities = << << >> >>

\* all_peers has returned the record stored with the empty list.
C19_Witness ==
    \E t \in Tasks :
        /\ backend = "sql"
        /\ ret[t].call.op = "all_peers"
        /\ ret[t].status = "ok"
        /\ "X" \in DOMAIN added
        /\ added["X"].capabilities = << >>
        /\ \E p \in ret[t].out : Len(p.capabilities) = 1

\* The step in which the read of task t returns its list.
C18_Returns(t) ==
    /\ pc[t] = "holding"
    /\ IsRead(call[t].op)
    /\ pc'[t] = "idle"

\* C18: from the step in which a read takes the lock to the step in which it
\* returns, no add_peer takes effect: the map stays as it is; and the list
\* returned holds records of that one map, each as it is stored: for
\* node_by_id the record under the id, for node_by_ip every record of the
\* address, for all_peers as many of the records as page_size allows.
C18_AtomicScan ==
    [][ /\ (\E t \in Tasks : pc[t] = "holding" /\ IsRead(call[t].op)) =>
              (mem' = mem /\ added' = added)
        /\ \A t \in Tasks :
              C18_Returns(t) =>
                  LET S == { e.val : e \in mem }
                      out == ret'[t].out
                  IN  /\ ret'[t].status = "ok"
                      /\ out \subseteq S
                      /\ call[t].op = "node_by_id" => out = { p \in S : p.id = call[t].id }
                      /\ call[t].op = "node_by_ip" => out = { p \in S : p.address = call[t].ip }
                      /\ call[t].op = "all_peers" =>
                            Cardinality(out) = Min(Cardinality(S), UnwrapOr(call[t].page_size, MemDefaultPageSize)) ]_vars

\* A read has returned the stored record while the add_peer of another task,
\* with another record for the same id, was waiting.
C18_Witness ==
    \E t, u \in Tasks :
        /\ IsRead(ret[t].call.op)
        /\ ret[t].status = "ok"
        /\ pc[u] = "called"
        /\ call[u].op = "add_peer"
        /\ call[u].peer \notin ret[t].out
        /\ \E p \in ret[t].out : p.id = call[u].peer.id

====
